---- MODULE Spec2Model ----
(***************************************************************************)
(* Model of the expiring weather/city cache pool                           *)
(* (core/utils/weather_cache.py, class WeatherCachePool) and of the        *)
(* tool-call dispatcher (core/handle/functionHandler.py, class             *)
(* FunctionHandler).                                                       *)
(*                                                                         *)
(* Time is counted in ticks; one hour of wall-clock time (the granularity  *)
(* of strftime("%Y%m%d_%H")) is SecondsPerHour ticks.                      *)
(***************************************************************************)
EXTENDS Integers, Sequences, FiniteSets, TLC

\* ---------------------------------------------------------------- bounds
\* Last clock reading the model explores.
MaxTime == 2
\* Cap on each statistics counter (the counters are unbounded in the code).
MaxCount == 2
MaxConfigLen == 2
MaxRuns == 2

\* ------------------------------------------------------------- constants
\* Ticks per wall-clock hour: the bucket of the "%Y%m%d_%H" time key.
SecondsPerHour == 2

Locations == {"a", "b"}
Threads == {"t1", "t2"}
WeatherTTLs == {1, 2}
CityTTLs == {1}
CacheSizes == {1, 2, 3}
\* Python's None, as the absent result of a lookup.
None == <<>>

\* The value fetched upstream for a subject: weather data or city info.
Payload(ns, location) == <<"data", ns, location>>

VARIABLES
    weather_cache_ttl,  \* self.weather_cache_ttl
    city_cache_ttl,     \* self.city_cache_ttl
    max_cache_size,     \* self.max_cache_size
    weather_cache,      \* self._weather_cache : key -> entry
    city_cache,         \* self._city_cache    : key -> entry
    access_order,       \* self._access_order  : insertion-ordered key -> time
    stats,              \* self._stats
    now,                \* the wall clock (time.time(), datetime.now())
    ret,                \* the call that has just returned and its result
    live,               \* history: per (namespace, subject) the last Put still stored
    fresh,              \* history: distinct keys Put into an empty pool, no Get since
    hit,                \* history: the last Get hit and the evictions after it
    pc,                 \* per thread: the statement it is about to execute
    held,               \* per thread: how often it holds self._cache_lock
    local,              \* per thread: the local variables of its call
    function_registry,  \* self.function_registry: the registered names, in order
    call,               \* the handle_llm_function_call invocation under way
    handler,            \* the FunctionHandler: how far __init__ is, its fields
    enable_async_refresh, \* self.enable_async_refresh
    _weather_cache_pool, \* the module global of weather_cache.py
    constructed,        \* history: how many WeatherCachePool objects were built
    got                 \* history: per thread, what get_weather_cache_pool returned

poolvars == <<weather_cache, city_cache, access_order, stats>>
confvars ==
    <<weather_cache_ttl, city_cache_ttl, max_cache_size, enable_async_refresh>>
histvars == <<ret, live, fresh, hit>>
threadvars == <<pc, held, local>>
dispvars == <<function_registry, call, handler>>
accvars == <<_weather_cache_pool, constructed, got>>
vars == <<confvars, poolvars, now, histvars, threadvars, dispvars, accvars>>

\* ------------------------------------------------- dictionaries and keys
EmptyDict == [k \in {} |-> <<>>]

DictSet(d, k, v) == [x \in DOMAIN d \cup {k} |-> IF x = k THEN v ELSE d[x]]

DictPop(d, k) == [x \in DOMAIN d \ {k} |-> d[x]]

\* self._access_order keeps the insertion order of a Python dict: assigning
\* to a present key keeps its position, a new key goes last.
AccessHas(acc, k) == \E i \in 1..Len(acc) : acc[i].key = k

AccessSet(acc, k, t) ==
    IF AccessHas(acc, k)
    THEN [i \in 1..Len(acc) |->
             IF acc[i].key = k THEN [key |-> k, ts |-> t] ELSE acc[i]]
    ELSE Append(acc, [key |-> k, ts |-> t])

AccessPop(acc, k) == SelectSeq(acc, LAMBDA r : r.key # k)

AccessKeys(acc) == {acc[i].key : i \in 1..Len(acc)}

\* strftime("%Y%m%d_%H"): the date and hour of a clock reading
HourOf(t) == t \div SecondsPerHour

GenerateWeatherKeyExact(location, t) == <<"weather", location, t>>

\* f"weather_{location}_{time_key}", time_key the hour of datetime.now()
GenerateWeatherKey(location, t) == <<"weather", location, HourOf(t)>>

\* f"city_{location}"
GenerateCityKey(location) == <<"city", location>>

IsExpiredReversed(cache_entry, t) == t < cache_entry.expires_at

\* time.time() > cache_entry.get("expires_at", 0)
IsExpired(cache_entry, t) == t > cache_entry.expires_at

\* ------------------------------------------------------------- eviction
\* sorted(self._access_order.items(), key=lambda x: x[1]): a stable sort,
\* equal timestamps stay in dictionary order.
FirstMin(acc) ==
    CHOOSE i \in 1..Len(acc) :
        \A j \in 1..Len(acc) :
            \/ acc[i].ts < acc[j].ts
            \/ acc[i].ts = acc[j].ts /\ i <= j

RemoveAt(s, i) == SubSeq(s, 1, i - 1) \o SubSeq(s, i + 1, Len(s))

RECURSIVE SortedAccess(_)
SortedAccess(acc) ==
    IF acc = <<>> THEN <<>>
    ELSE LET i == FirstMin(acc)
         IN  <<acc[i]>> \o SortedAccess(RemoveAt(acc, i))

\* sorted_access[:n]
Take(s, n) == SubSeq(s, 1, IF n < Len(s) THEN n ELSE Len(s))

\* One pass of the loop body of _evict_lru for `key`.
EvictKey(p, key) ==
    [p EXCEPT !.weather = IF key[1] = "weather" THEN DictPop(@, key) ELSE @,
              !.city = IF key[1] # "weather" /\ key[1] = "city"
                       THEN DictPop(@, key) ELSE @,
              !.access = AccessPop(@, key),
              !.stats.evictions = @ + 1]

RECURSIVE EvictAll(_, _)
EvictAll(p, victims) ==
    IF victims = <<>> THEN p
    ELSE EvictAll(EvictKey(p, Head(victims).key), Tail(victims))

TotalEntries(p) == Cardinality(DOMAIN p.weather) + Cardinality(DOMAIN p.city)

EvictLruToCapacity(p, max) ==
    LET total_entries == TotalEntries(p)
    IN  IF total_entries <= max THEN p
        ELSE EvictAll(p, Take(SortedAccess(p.access), total_entries - max))

EvictLruLate(p, max) ==
    LET total_entries == TotalEntries(p)
    IN  IF total_entries <= max THEN p
        ELSE EvictAll(p, Take(SortedAccess(p.access), total_entries - max - 1))

EvictLru(p, max) ==
    LET total_entries == TotalEntries(p)
    IN  IF total_entries < max THEN p
        ELSE EvictAll(p, Take(SortedAccess(p.access), total_entries - max + 1))

\* ------------------------------------------------------------- handlers
\* Each handler maps the pool p to the pool after the call and the value
\* returned.  tkey is the clock read by _generate_weather_key before the
\* lock is taken, t the clock read under the lock.
GetWeatherData(p, location, tkey, t) ==
    LET cache_key == GenerateWeatherKey(location, tkey)
    IN  IF cache_key \in DOMAIN p.weather
        THEN LET cache_entry == p.weather[cache_key]
             IN  IF ~IsExpired(cache_entry, t)
                 THEN [pool |-> [p EXCEPT !.access = AccessSet(@, cache_key, t),
                                          !.stats.weather_hits = @ + 1],
                       val |-> cache_entry.data]
                 ELSE [pool |-> [p EXCEPT !.weather = DictPop(@, cache_key),
                                          !.access = AccessPop(@, cache_key),
                                          !.stats.weather_misses = @ + 1],
                       val |-> None]
        ELSE [pool |-> [p EXCEPT !.stats.weather_misses = @ + 1], val |-> None]

GetCityInfoKeepExpired(p, location, t) ==
    LET cache_key == GenerateCityKey(location)
    IN  IF cache_key \in DOMAIN p.city /\ ~IsExpired(p.city[cache_key], t)
        THEN [pool |-> [p EXCEPT !.access = AccessSet(@, cache_key, t),
                                 !.stats.city_hits = @ + 1],
              val |-> p.city[cache_key].data]
        ELSE [pool |-> [p EXCEPT !.stats.city_misses = @ + 1], val |-> None]

GetCityInfoNoAccess(p, location, t) ==
    LET cache_key == GenerateCityKey(location)
    IN  IF cache_key \in DOMAIN p.city
        THEN LET cache_entry == p.city[cache_key]
             IN  IF ~IsExpired(cache_entry, t)
                 THEN [pool |-> [p EXCEPT !.stats.city_hits = @ + 1],
                       val |-> cache_entry.data]
                 ELSE [pool |-> [p EXCEPT !.city = DictPop(@, cache_key),
                                          !.access = AccessPop(@, cache_key),
                                          !.stats.city_misses = @ + 1],
                       val |-> None]
        ELSE [pool |-> [p EXCEPT !.stats.city_misses = @ + 1], val |-> None]

GetCityInfo(p, location, t) ==
    LET cache_key == GenerateCityKey(location)
    IN  IF cache_key \in DOMAIN p.city
        THEN LET cache_entry == p.city[cache_key]
             IN  IF ~IsExpired(cache_entry, t)
                 THEN [pool |-> [p EXCEPT !.access = AccessSet(@, cache_key, t),
                                          !.stats.city_hits = @ + 1],
                       val |-> cache_entry.data]
                 ELSE [pool |-> [p EXCEPT !.city = DictPop(@, cache_key),
                                          !.access = AccessPop(@, cache_key),
                                          !.stats.city_misses = @ + 1],
                       val |-> None]
        ELSE [pool |-> [p EXCEPT !.stats.city_misses = @ + 1], val |-> None]

\* The entry built before the lock is taken (current_time = t).
CacheEntry(data, location, t, ttl) ==
    [data |-> data, created_at |-> t, expires_at |-> t + ttl,
     location |-> location]

\* t is current_time, read after the key and before the lock is taken.
SetWeatherData(p, location, weather_data, tkey, t, ttl, max) ==
    LET cache_key == GenerateWeatherKey(location, tkey)
        cache_entry == CacheEntry(weather_data, location, t, ttl)
    IN  EvictLru([p EXCEPT !.weather = DictSet(@, cache_key, cache_entry),
                           !.access = AccessSet(@, cache_key, t)], max)

SetCityInfo(p, location, city_info, t, ttl, max) ==
    LET cache_key == GenerateCityKey(location)
        cache_entry == CacheEntry(city_info, location, t, ttl)
    IN  EvictLru([p EXCEPT !.city = DictSet(@, cache_key, cache_entry),
                           !.access = AccessSet(@, cache_key, t)], max)

ClearCacheAndStats(p) ==
    [p EXCEPT !.weather = EmptyDict, !.city = EmptyDict, !.access = <<>>,
              !.stats = [c \in DOMAIN @ |-> 0]]

ClearCache(p) ==
    [p EXCEPT !.weather = EmptyDict, !.city = EmptyDict, !.access = <<>>]

ExpiredKeysAtExpiry(d, current_time) ==
    {key \in DOMAIN d : current_time >= d[key].expires_at}

ExpiredKeys(d, current_time) ==
    {key \in DOMAIN d : current_time > d[key].expires_at}

RECURSIVE PopAll(_, _)
PopAll(acc, keys) ==
    IF keys = {} THEN acc
    ELSE LET k == CHOOSE x \in keys : TRUE
         IN  PopAll(AccessPop(acc, k), keys \ {k})

CleanExpired(p, current_time) ==
    LET expired_weather_keys == ExpiredKeys(p.weather, current_time)
        expired_city_keys == ExpiredKeys(p.city, current_time)
    IN  [p EXCEPT
           !.weather = [k \in DOMAIN @ \ expired_weather_keys |-> @[k]],
           !.city = [k \in DOMAIN @ \ expired_city_keys |-> @[k]],
           !.access = PopAll(@, expired_weather_keys \cup expired_city_keys)]

\* ------------------------------------------------------------ the state
Pool == [weather |-> weather_cache, city |-> city_cache,
         access |-> access_order, stats |-> stats]

SetPool(p) ==
    /\ weather_cache' = p.weather
    /\ city_cache' = p.city
    /\ access_order' = p.access
    /\ stats' = p.stats

StoreKeys(p) == DOMAIN p.weather \cup DOMAIN p.city

EntryOf(p, k) == IF k[1] = "weather" THEN p.weather[k] ELSE p.city[k]

Namespaces == {"weather", "city"}

NoRet == [op |-> "none", ns |-> "", location |-> "", val |-> None,
          key |-> <<>>, found |-> <<>>]

NoLive == [x \in Namespaces \X Locations |-> <<>>]
NoFresh == [ok |-> FALSE, keys |-> <<>>]
EmptyFresh == [ok |-> TRUE, keys |-> <<>>]
NoHit == [key |-> <<>>, strict |-> FALSE, ev |-> 0]

InitConfig ==
    /\ weather_cache_ttl \in WeatherTTLs
    /\ city_cache_ttl \in CityTTLs
    /\ max_cache_size \in CacheSizes
    /\ enable_async_refresh = TRUE

InitPool ==
    /\ weather_cache = EmptyDict
    /\ city_cache = EmptyDict
    /\ access_order = <<>>
    /\ stats = [weather_hits |-> 0, weather_misses |-> 0, city_hits |-> 0,
                city_misses |-> 0, evictions |-> 0]

InitHistory ==
    /\ ret = NoRet
    /\ live = NoLive
    /\ fresh = EmptyFresh
    /\ hit = NoHit

NoLocal == [ns |-> "", location |-> "", key_time |-> 0, cache_key |-> <<>>,
            current_time |-> 0, cache_entry |-> <<>>, victims |-> <<>>]

InitThreads ==
    /\ pc = [t \in Threads |-> "idle"]
    /\ held = [t \in Threads |-> 0]
    /\ local = [t \in Threads |-> NoLocal]

\* _weather_cache_pool: Optional[WeatherCachePool] = None
InitAccessor ==
    /\ _weather_cache_pool = None
    /\ constructed = 0
    /\ got = [t \in Threads |-> None]

NoCall == [pc |-> "idle", name |-> "", arguments |-> [has |-> FALSE, text |-> <<>>],
           funcItem |-> "", args |-> <<>>, result |-> <<>>, invoked |-> <<>>,
           logged |-> "", escaped |-> "", trace |-> <<>>]

\* config: the "functions" list of the selected Intent module; placeholder:
\* whether plugin_loader's description has "[plugins]" in it; forced: the
\* list register_config_functions registers; runs, before: history of
\* modify_plugin_loader_des.
NoHandler == [pc |-> "none", config |-> <<>>, placeholder |-> FALSE,
              forced |-> <<>>, functions_desc |-> <<>>, finish_init |-> FALSE,
              runs |-> 0, before |-> <<>>]

\* No FunctionHandler has been constructed.
InitNoHandler ==
    /\ function_registry = <<>>
    /\ call = NoCall
    /\ handler = NoHandler

Init ==
    /\ InitConfig
    /\ InitPool
    /\ now = 0
    /\ InitHistory
    /\ InitThreads
    /\ InitAccessor
    /\ InitNoHandler

\* Counters stay within the cap.
StatsInBound(p) ==
    p.stats.weather_hits + p.stats.weather_misses + p.stats.city_hits
        + p.stats.city_misses + p.stats.evictions <= MaxCount

\* ------------------------------------------------------ history updates
\* A remembered Put is forgotten once its entry has left the stores.
LiveAfter(l, p) ==
    [x \in DOMAIN l |->
        IF l[x] # <<>> /\ l[x][1].key \in StoreKeys(p) THEN l[x] ELSE <<>>]

LivePut(l, ns, location, key, entry) ==
    [l EXCEPT ![<<ns, location>>] =
        <<[key |-> key, data |-> entry.data, created_at |-> entry.created_at,
           expires_at |-> entry.expires_at]>>]

FreshKeys == {fresh.keys[i].key : i \in 1..Len(fresh.keys)}

FreshPut(key, expires_at) ==
    IF fresh.ok /\ key \notin FreshKeys /\ Len(fresh.keys) <= max_cache_size
    THEN [fresh EXCEPT !.keys = Append(@, [key |-> key, exp |-> expires_at])]
    ELSE NoFresh

\* Some other key's last access is strictly older than t.
OlderThan(acc, key, t) ==
    \E i \in 1..Len(acc) : acc[i].key # key /\ acc[i].ts < t

HitPut(p, q, key) ==
    LET ev == hit.ev + (q.stats.evictions - p.stats.evictions)
    IN  IF hit.key # <<>> /\ key \notin StoreKeys(p) /\ ev <= 1
        THEN [hit EXCEPT !.ev = ev]
        ELSE NoHit

GetHistory(p, r, ns, location, key) ==
    /\ ret' = [op |-> "get", ns |-> ns, location |-> location, val |-> r.val,
               key |-> key,
               found |-> IF key \in StoreKeys(p) THEN <<EntryOf(p, key)>>
                         ELSE <<>>]
    /\ live' = LiveAfter(live, r.pool)
    /\ fresh' = NoFresh
    /\ hit' = IF r.val # None
              THEN [key |-> key, strict |-> OlderThan(p.access, key, now),
                    ev |-> 0]
              ELSE NoHit

PutHistory(p, q, ns, location, key, entry) ==
    /\ ret' = NoRet
    /\ live' = LiveAfter(LivePut(live, ns, location, key, entry), q)
    /\ fresh' = FreshPut(key, entry.expires_at)
    /\ hit' = HitPut(p, q, key)

\* -------------------------------------------------------------- actions
DoGetWeatherData ==
    \E location \in Locations :
        LET r == GetWeatherData(Pool, location, now, now)
        IN  /\ StatsInBound(r.pool)
            /\ SetPool(r.pool)
            /\ GetHistory(Pool, r, "weather", location,
                          GenerateWeatherKey(location, now))
            /\ UNCHANGED <<confvars, accvars, now, threadvars, dispvars>>

DoGetCityInfo ==
    \E location \in Locations :
        LET r == GetCityInfo(Pool, location, now)
        IN  /\ StatsInBound(r.pool)
            /\ SetPool(r.pool)
            /\ GetHistory(Pool, r, "city", location, GenerateCityKey(location))
            /\ UNCHANGED <<confvars, accvars, now, threadvars, dispvars>>

DoSetWeatherData ==
    \E location \in Locations :
        LET data == Payload("weather", location)
            q == SetWeatherData(Pool, location, data, now, now,
                                weather_cache_ttl, max_cache_size)
        IN  /\ StatsInBound(q)
            /\ SetPool(q)
            /\ PutHistory(Pool, q, "weather", location,
                          GenerateWeatherKey(location, now),
                          CacheEntry(data, location, now, weather_cache_ttl))
            /\ UNCHANGED <<confvars, accvars, now, threadvars, dispvars>>

DoSetCityInfo ==
    \E location \in Locations :
        LET data == Payload("city", location)
            q == SetCityInfo(Pool, location, data, now, city_cache_ttl,
                             max_cache_size)
        IN  /\ StatsInBound(q)
            /\ SetPool(q)
            /\ PutHistory(Pool, q, "city", location, GenerateCityKey(location),
                          CacheEntry(data, location, now, city_cache_ttl))
            /\ UNCHANGED <<confvars, accvars, now, threadvars, dispvars>>

DoClearCache ==
    /\ SetPool(ClearCache(Pool))
    /\ ret' = NoRet
    /\ live' = NoLive
    /\ fresh' = EmptyFresh
    /\ hit' = NoHit
    /\ UNCHANGED <<confvars, accvars, now, threadvars, dispvars>>

DoCleanExpired ==
    LET q == CleanExpired(Pool, now)
    IN  /\ SetPool(q)
        /\ ret' = NoRet
        /\ live' = LiveAfter(live, q)
        /\ fresh' = IF q = Pool THEN fresh ELSE NoFresh
        /\ hit' = IF q = Pool THEN hit ELSE NoHit
        /\ UNCHANGED <<confvars, accvars, now, threadvars, dispvars>>

DoGetStats ==
    /\ ret' = NoRet
    /\ UNCHANGED <<confvars, accvars, poolvars, now, live, fresh, hit, threadvars, dispvars>>

Tick ==
    /\ now < MaxTime
    /\ now' = now + 1
    /\ ret' = NoRet
    /\ UNCHANGED <<confvars, accvars, poolvars, live, fresh, hit, threadvars, dispvars>>

Next ==
    \/ DoGetWeatherData
    \/ DoGetCityInfo
    \/ DoSetWeatherData
    \/ DoSetCityInfo
    \/ DoClearCache
    \/ DoCleanExpired
    \/ DoGetStats
    \/ Tick

Spec == Init /\ [][Next]_vars

\* ------------------------------------------------------- _need_refresh
\* refresh_threshold is a float; the model has it as the fraction num/den
\* and compares after multiplying both sides by den.
Thresholds ==
    { [num |-> 1, den |-> 4], [num |-> 1, den |-> 2], [num |-> 3, den |-> 4],
      [num |-> 4, den |-> 5] }

NeedRefreshOfRemaining(enable, cache_entry, refresh_threshold, t) ==
    IF ~enable THEN FALSE
    ELSE LET total_ttl == cache_entry.expires_at - cache_entry.created_at
             remaining_ttl == cache_entry.expires_at - t
         IN  remaining_ttl * refresh_threshold.den
                 < total_ttl * refresh_threshold.num

\* remaining_ttl < total_ttl * (1 - refresh_threshold), at time t
NeedRefresh(enable, cache_entry, refresh_threshold, t) ==
    IF ~enable THEN FALSE
    ELSE LET total_ttl == cache_entry.expires_at - cache_entry.created_at
             remaining_ttl == cache_entry.expires_at - t
         IN  remaining_ttl * refresh_threshold.den
                 < total_ttl * (refresh_threshold.den - refresh_threshold.num)

\* self._need_refresh(cache_entry, refresh_threshold) on a stored entry
DoNeedRefresh ==
    \E ns \in Namespaces, refresh_threshold \in Thresholds :
        LET store == IF ns = "weather" THEN weather_cache ELSE city_cache
        IN  \E key \in DOMAIN store :
                /\ ret' = [op |-> "need_refresh", ns |-> ns,
                           location |-> store[key].location,
                           val |-> <<NeedRefresh(enable_async_refresh,
                                                 store[key], refresh_threshold,
                                                 now)>>,
                           key |-> key, found |-> <<store[key]>>,
                           threshold |-> refresh_threshold]
                /\ UNCHANGED <<confvars, accvars, poolvars, now, live, fresh, hit,
                               threadvars, dispvars>>

InitRefresh ==
    /\ weather_cache_ttl \in WeatherTTLs
    /\ city_cache_ttl \in CityTTLs
    /\ max_cache_size \in CacheSizes
    /\ enable_async_refresh \in BOOLEAN
    /\ InitPool
    /\ now = 0
    /\ InitHistory
    /\ InitThreads
    /\ InitAccessor
    /\ InitNoHandler

NextRefresh ==
    \/ DoSetWeatherData
    \/ DoSetCityInfo
    \/ DoNeedRefresh
    \/ Tick

SpecRefresh == InitRefresh /\ [][NextRefresh]_vars

\* config.get("weather_cache_ttl", 3600) and config.get("city_cache_ttl",
\* 86400) are stored as they come: the constructor takes any number,
\* zero and negative ones included.
AnyWeatherTTLs == {0, 1}
AnyCityTTLs == {0 - 1, 1}

InitAnyTTL ==
    /\ weather_cache_ttl \in AnyWeatherTTLs
    /\ city_cache_ttl \in AnyCityTTLs
    /\ max_cache_size \in CacheSizes
    /\ enable_async_refresh = TRUE
    /\ InitPool
    /\ now = 0
    /\ InitHistory
    /\ InitThreads
    /\ InitAccessor
    /\ InitNoHandler

SpecAnyTTL == InitAnyTTL /\ [][Next]_vars

\* ------------------------------------------------- concurrent execution
\* The same handlers, one statement at a time, called from several threads.
\* self._cache_lock is a threading.RLock: a thread may take it when no
\* other thread holds it, and takes it again while it holds it.
ConcLocations == {"a"}

CanAcquireAlways(t) == TRUE

CanAcquire(t) == \A u \in Threads \ {t} : held[u] = 0

PutEntersAtOnce(t) == TRUE

\* "with self._cache_lock:" of set_weather_data and set_city_info
PutEnters(t) == CanAcquire(t)

Acquire(t) == held' = [held EXCEPT ![t] = @ + 1]

Release(t) == held' = [held EXCEPT ![t] = @ - 1]

LockFree == \A t \in Threads : held[t] = 0

Goto(t, label) == pc' = [pc EXCEPT ![t] = label]

ConcFrame == UNCHANGED <<confvars, accvars, now, histvars, dispvars>>

\* set_weather_data / set_city_info up to the lock: the key, current_time
\* and the entry are computed before the lock is taken.
PutCall(t) ==
    /\ pc[t] = "idle"
    /\ \E ns \in Namespaces, location \in ConcLocations :
          local' = [local EXCEPT ![t] =
              [NoLocal EXCEPT
                  !.ns = ns,
                  !.location = location,
                  !.cache_key = IF ns = "weather"
                                THEN GenerateWeatherKey(location, now)
                                ELSE GenerateCityKey(location),
                  !.current_time = now,
                  !.cache_entry =
                      <<CacheEntry(Payload(ns, location), location, now,
                                   IF ns = "weather" THEN weather_cache_ttl
                                   ELSE city_cache_ttl)>>]]
    /\ Goto(t, "put_lock")
    /\ UNCHANGED <<poolvars, held>>
    /\ ConcFrame

PutAcquire(t) ==
    /\ pc[t] = "put_lock"
    /\ PutEnters(t)
    /\ Acquire(t)
    /\ Goto(t, "put_store")
    /\ UNCHANGED <<poolvars, local>>
    /\ ConcFrame

\* self._weather_cache[cache_key] = cache_entry (or the city store)
PutStore(t) ==
    /\ pc[t] = "put_store"
    /\ IF local[t].ns = "weather"
       THEN /\ weather_cache' = DictSet(weather_cache, local[t].cache_key,
                                        local[t].cache_entry[1])
            /\ UNCHANGED city_cache
       ELSE /\ city_cache' = DictSet(city_cache, local[t].cache_key,
                                     local[t].cache_entry[1])
            /\ UNCHANGED weather_cache
    /\ Goto(t, "put_access")
    /\ UNCHANGED <<access_order, stats, held, local>>
    /\ ConcFrame

\* self._access_order[cache_key] = current_time
PutAccess(t) ==
    /\ pc[t] = "put_access"
    /\ access_order' = AccessSet(access_order, local[t].cache_key,
                                 local[t].current_time)
    /\ Goto(t, "evict_lock")
    /\ UNCHANGED <<weather_cache, city_cache, stats, held, local>>
    /\ ConcFrame

\* _evict_lru: "with self._cache_lock:", re-entered by the thread of the Put
EvictAcquire(t) ==
    /\ pc[t] = "evict_lock"
    /\ CanAcquire(t)
    /\ Acquire(t)
    /\ Goto(t, "evict_check")
    /\ UNCHANGED <<poolvars, local>>
    /\ ConcFrame

\* the size test and the sorted list of victims
EvictCheck(t) ==
    /\ pc[t] = "evict_check"
    /\ LET total_entries == TotalEntries(Pool)
       IN  IF total_entries < max_cache_size
           THEN /\ Goto(t, "evict_release")
                /\ UNCHANGED local
           ELSE /\ local' = [local EXCEPT ![t].victims =
                       Take(SortedAccess(access_order),
                            total_entries - max_cache_size + 1)]
                /\ Goto(t, "evict_loop")
    /\ UNCHANGED <<poolvars, held>>
    /\ ConcFrame

\* one iteration of the for loop
EvictLoop(t) ==
    /\ pc[t] = "evict_loop"
    /\ IF local[t].victims = <<>>
       THEN /\ Goto(t, "evict_release")
            /\ UNCHANGED <<poolvars, local>>
       ELSE LET q == EvictKey(Pool, Head(local[t].victims).key)
            IN  /\ StatsInBound(q)
                /\ SetPool(q)
                /\ local' = [local EXCEPT ![t].victims = Tail(@)]
                /\ UNCHANGED pc
    /\ UNCHANGED held
    /\ ConcFrame

EvictRelease(t) ==
    /\ pc[t] = "evict_release"
    /\ Release(t)
    /\ Goto(t, "put_release")
    /\ UNCHANGED <<poolvars, local>>
    /\ ConcFrame

PutRelease(t) ==
    /\ pc[t] = "put_release"
    /\ Release(t)
    /\ Goto(t, "idle")
    /\ local' = [local EXCEPT ![t] = NoLocal]
    /\ UNCHANGED poolvars
    /\ ConcFrame

\* get_weather_data / get_city_info
GetCall(t) ==
    /\ pc[t] = "idle"
    /\ \E ns \in Namespaces, location \in ConcLocations :
          local' = [local EXCEPT ![t] =
              [NoLocal EXCEPT
                  !.ns = ns,
                  !.location = location,
                  !.key_time = IF ns = "weather" THEN now ELSE 0,
                  !.cache_key = IF ns = "weather"
                                THEN GenerateWeatherKey(location, now)
                                ELSE GenerateCityKey(location)]]
    /\ Goto(t, "get_lock")
    /\ UNCHANGED <<poolvars, held>>
    /\ ConcFrame

GetAcquire(t) ==
    /\ pc[t] = "get_lock"
    /\ CanAcquire(t)
    /\ Acquire(t)
    /\ Goto(t, "get_body")
    /\ UNCHANGED <<poolvars, local>>
    /\ ConcFrame

\* The body under the lock: lookup, expiry test, access update or removal.
GetBody(t) ==
    /\ pc[t] = "get_body"
    /\ LET r == IF local[t].ns = "weather"
                THEN GetWeatherData(Pool, local[t].location,
                                    local[t].key_time, now)
                ELSE GetCityInfo(Pool, local[t].location, now)
       IN  /\ StatsInBound(r.pool)
           /\ SetPool(r.pool)
    /\ Goto(t, "get_release")
    /\ UNCHANGED <<held, local>>
    /\ ConcFrame

GetRelease(t) ==
    /\ pc[t] = "get_release"
    /\ Release(t)
    /\ Goto(t, "idle")
    /\ local' = [local EXCEPT ![t] = NoLocal]
    /\ UNCHANGED poolvars
    /\ ConcFrame

\* clear_cache
ClearAcquire(t) ==
    /\ pc[t] = "idle"
    /\ CanAcquire(t)
    /\ Acquire(t)
    /\ Goto(t, "clear_weather")
    /\ UNCHANGED <<poolvars, local>>
    /\ ConcFrame

ClearWeather(t) ==
    /\ pc[t] = "clear_weather"
    /\ weather_cache' = EmptyDict
    /\ Goto(t, "clear_city")
    /\ UNCHANGED <<city_cache, access_order, stats, held, local>>
    /\ ConcFrame

ClearCity(t) ==
    /\ pc[t] = "clear_city"
    /\ city_cache' = EmptyDict
    /\ Goto(t, "clear_access")
    /\ UNCHANGED <<weather_cache, access_order, stats, held, local>>
    /\ ConcFrame

ClearAccess(t) ==
    /\ pc[t] = "clear_access"
    /\ access_order' = <<>>
    /\ Release(t)
    /\ Goto(t, "idle")
    /\ UNCHANGED <<weather_cache, city_cache, stats, local>>
    /\ ConcFrame

\* clean_expired: current_time is read before the lock is taken
CleanCall(t) ==
    /\ pc[t] = "idle"
    /\ local' = [local EXCEPT ![t] = [NoLocal EXCEPT !.current_time = now]]
    /\ Goto(t, "clean_lock")
    /\ UNCHANGED <<poolvars, held>>
    /\ ConcFrame

CleanAcquire(t) ==
    /\ pc[t] = "clean_lock"
    /\ CanAcquire(t)
    /\ Acquire(t)
    /\ Goto(t, "clean_weather")
    /\ UNCHANGED <<poolvars, local>>
    /\ ConcFrame

CleanWeather(t) ==
    /\ pc[t] = "clean_weather"
    /\ LET expired_weather_keys ==
               ExpiredKeys(weather_cache, local[t].current_time)
       IN  /\ weather_cache' =
                  [k \in DOMAIN weather_cache \ expired_weather_keys |->
                      weather_cache[k]]
           /\ access_order' = PopAll(access_order, expired_weather_keys)
    /\ Goto(t, "clean_city")
    /\ UNCHANGED <<city_cache, stats, held, local>>
    /\ ConcFrame

CleanCity(t) ==
    /\ pc[t] = "clean_city"
    /\ LET expired_city_keys == ExpiredKeys(city_cache, local[t].current_time)
       IN  /\ city_cache' =
                  [k \in DOMAIN city_cache \ expired_city_keys |-> city_cache[k]]
           /\ access_order' = PopAll(access_order, expired_city_keys)
    /\ Release(t)
    /\ Goto(t, "idle")
    /\ local' = [local EXCEPT ![t] = NoLocal]
    /\ UNCHANGED <<weather_cache, stats>>
    /\ ConcFrame

\* get_stats
StatsAcquire(t) ==
    /\ pc[t] = "idle"
    /\ CanAcquire(t)
    /\ Acquire(t)
    /\ Goto(t, "stats_read")
    /\ UNCHANGED <<poolvars, local>>
    /\ ConcFrame

StatsRead(t) ==
    /\ pc[t] = "stats_read"
    /\ Release(t)
    /\ Goto(t, "idle")
    /\ UNCHANGED <<poolvars, local>>
    /\ ConcFrame

ConcTick ==
    /\ now < MaxTime
    /\ now' = now + 1
    /\ UNCHANGED <<confvars, accvars, poolvars, histvars, threadvars, dispvars>>

ConcCacheSizes == {2}
ConcWeatherTTLs == {2}
ConcCityTTLs == {1}

InitConc ==
    /\ weather_cache_ttl \in ConcWeatherTTLs
    /\ city_cache_ttl \in ConcCityTTLs
    /\ max_cache_size \in ConcCacheSizes
    /\ enable_async_refresh = TRUE
    /\ InitPool
    /\ now = 0
    /\ InitHistory
    /\ InitThreads
    /\ InitAccessor
    /\ InitNoHandler

NextConc ==
    \/ \E t \in Threads : PutCall(t)
    \/ \E t \in Threads : PutAcquire(t)
    \/ \E t \in Threads : PutStore(t)
    \/ \E t \in Threads : PutAccess(t)
    \/ \E t \in Threads : EvictAcquire(t)
    \/ \E t \in Threads : EvictCheck(t)
    \/ \E t \in Threads : EvictLoop(t)
    \/ \E t \in Threads : EvictRelease(t)
    \/ \E t \in Threads : PutRelease(t)
    \/ \E t \in Threads : GetCall(t)
    \/ \E t \in Threads : GetAcquire(t)
    \/ \E t \in Threads : GetBody(t)
    \/ \E t \in Threads : GetRelease(t)
    \/ \E t \in Threads : ClearAcquire(t)
    \/ \E t \in Threads : ClearWeather(t)
    \/ \E t \in Threads : ClearCity(t)
    \/ \E t \in Threads : ClearAccess(t)
    \/ \E t \in Threads : CleanCall(t)
    \/ \E t \in Threads : CleanAcquire(t)
    \/ \E t \in Threads : CleanWeather(t)
    \/ \E t \in Threads : CleanCity(t)
    \/ \E t \in Threads : StatsAcquire(t)
    \/ \E t \in Threads : StatsRead(t)
    \/ ConcTick

SpecConc == InitConc /\ [][NextConc]_vars

\* ---------------------------------------------- get_weather_cached
\* The plugin on top of the pool.  The two upstream requests are inputs:
\* the city lookup answers with a city record (whose "name" need not be the
\* text that was asked for) or fails, the weather page parses or fails.
CityInfo(name) == [name |-> name]

CityLookups == {None} \cup {<<CityInfo(n)>> : n \in Locations}

\* parse_weather_info's result wrapped for the cache, as fetched at time t
WeatherPage(name, t) == [city_name |-> name, fetched_at |-> t]

\* fetch_city_info_cached(location, api_key, api_host, cache_pool)
FetchCityInfoCached(p, location, lookup, t, ttl, max) ==
    LET r == GetCityInfo(p, location, t)
    IN  IF r.val # None THEN [pool |-> r.pool, city_info |-> <<r.val>>]
        ELSE IF lookup # None
        THEN [pool |-> SetCityInfo(r.pool, location, lookup[1], t, ttl, max),
              city_info |-> lookup]
        ELSE [pool |-> r.pool, city_info |-> None]

\* fetch_and_parse_weather_cached(city_info, cache_pool, force_refresh)
FetchAndParseWeatherCached(p, city_info, force_refresh, page_ok, t, ttl, max) ==
    LET location == city_info.name
        r == IF force_refresh THEN [pool |-> p, val |-> None]
             ELSE GetWeatherData(p, location, t, t)
    IN  IF r.val # None
        THEN [pool |-> r.pool, weather_data |-> <<r.val>>, cached |-> TRUE]
        ELSE IF page_ok
        THEN LET cached_data == WeatherPage(location, t)
             IN  [pool |-> SetWeatherData(r.pool, location, cached_data, t, t,
                                          ttl, max),
                  weather_data |-> <<cached_data>>, cached |-> FALSE]
        ELSE [pool |-> r.pool, weather_data |-> None, cached |-> FALSE]

\* cache_indicator and the city of format_weather_report
FormatWeatherReport(weather_data, cache_hit) ==
    [cache_indicator |-> IF cache_hit THEN "cached" ELSE "live",
     city_name |-> weather_data.city_name,
     fetched_at |-> weather_data.fetched_at]

\* cache_hit = not force_refresh and
\*             cache_pool.get_weather_data(location) is not None
CacheHitFlag(p, location, force_refresh, t) ==
    IF force_refresh THEN [pool |-> p, val |-> FALSE]
    ELSE LET r == GetWeatherData(p, location, t, t)
         IN  [pool |-> r.pool, val |-> r.val # None]

\* get_weather_cached(conn, location, lang, force_refresh): the pool after
\* the call, what it answered, and whether the data came out of the cache.
GetWeatherCached(p, location, force_refresh, lookup, page_ok, t, wttl, cttl, max) ==
    LET c == FetchCityInfoCached(p, location, lookup, t, cttl, max)
    IN  IF c.city_info = None
        THEN [pool |-> c.pool, answer |-> "no_city", report |-> None,
              cached |-> FALSE]
        ELSE LET w == FetchAndParseWeatherCached(c.pool, c.city_info[1],
                          force_refresh, page_ok, t, wttl, max)
             IN  IF w.weather_data = None
                 THEN [pool |-> w.pool, answer |-> "failed", report |-> None,
                       cached |-> FALSE]
                 ELSE LET f == CacheHitFlag(w.pool, location, force_refresh, t)
                      IN  [pool |-> f.pool, answer |-> "report",
                           report |-> <<FormatWeatherReport(w.weather_data[1],
                                                            f.val)>>,
                           cached |-> w.cached]

WeatherLookups(p) == p.stats.weather_hits + p.stats.weather_misses

StatsTotal(p) ==
    p.stats.weather_hits + p.stats.weather_misses + p.stats.city_hits
        + p.stats.city_misses + p.stats.evictions

\* One call of the plugin; ret keeps what it answered and, as history, the
\* weather lookups counted before and after it.
DoGetWeatherCached ==
    /\ StatsTotal(Pool) <= MaxCount
    /\ \E location \in Locations, force_refresh \in BOOLEAN,
          lookup \in CityLookups, page_ok \in BOOLEAN :
          LET g == GetWeatherCached(Pool, location, force_refresh, lookup,
                                    page_ok, now, weather_cache_ttl,
                                    city_cache_ttl, max_cache_size)
          IN  /\ SetPool(g.pool)
              /\ ret' = [op |-> "get_weather_cached", ns |-> "weather",
                         location |-> location, val |-> g.report,
                         key |-> <<>>, found |-> <<>>,
                         force_refresh |-> force_refresh,
                         answer |-> g.answer, cached |-> g.cached,
                         lookups |-> WeatherLookups(g.pool)
                                        - WeatherLookups(Pool)]
    /\ UNCHANGED <<confvars, accvars, now, live, fresh, hit, threadvars, dispvars>>

InitWeather ==
    /\ InitConfig
    /\ InitPool
    /\ now = 0
    /\ InitHistory
    /\ InitThreads
    /\ InitAccessor
    /\ InitNoHandler

NextWeather == DoGetWeatherCached \/ Tick

SpecWeather == InitWeather /\ [][NextWeather]_vars

\* ------------------------------------------- get_weather_cache_pool
\* The module-level accessor, called from several threads: no lock is
\* taken, so the threads interleave between its statements.  A pool object
\* is its construction number and the configuration it was built from.
PoolConfigs == {None, <<"plugins.weather_cache">>}

DefaultConfig == <<"default">>

AccFrame == UNCHANGED <<confvars, poolvars, now, histvars, held, dispvars>>

\* get_weather_cache_pool(config) is entered
PoolCall(t) ==
    /\ pc[t] = "idle"
    /\ \E config \in PoolConfigs :
          local' = [local EXCEPT ![t] = [config |-> config, pool |-> None]]
    /\ Goto(t, "pool_check")
    /\ UNCHANGED accvars
    /\ AccFrame

\* if _weather_cache_pool is None:
PoolCheck(t) ==
    /\ pc[t] = "pool_check"
    /\ Goto(t, IF _weather_cache_pool = None THEN "pool_construct"
                ELSE "pool_return")
    /\ UNCHANGED <<local, accvars>>
    /\ AccFrame

\* "if config is None: config = {...}" and WeatherCachePool(config)
PoolConstruct(t) ==
    /\ pc[t] = "pool_construct"
    /\ constructed' = constructed + 1
    /\ local' = [local EXCEPT ![t].pool =
           <<[id |-> constructed + 1,
              config |-> IF local[t].config = None THEN DefaultConfig
                         ELSE local[t].config]>>]
    /\ Goto(t, "pool_assign")
    /\ UNCHANGED <<_weather_cache_pool, got>>
    /\ AccFrame

\* _weather_cache_pool = <the new object>
PoolAssign(t) ==
    /\ pc[t] = "pool_assign"
    /\ _weather_cache_pool' = local[t].pool
    /\ Goto(t, "pool_return")
    /\ UNCHANGED <<local, constructed, got>>
    /\ AccFrame

\* return _weather_cache_pool
PoolReturn(t) ==
    /\ pc[t] = "pool_return"
    /\ got' = [got EXCEPT ![t] = _weather_cache_pool]
    /\ local' = [local EXCEPT ![t] = NoLocal]
    /\ Goto(t, "idle")
    /\ UNCHANGED <<_weather_cache_pool, constructed>>
    /\ AccFrame

InitAccessorCalls ==
    /\ weather_cache_ttl \in ConcWeatherTTLs
    /\ city_cache_ttl \in ConcCityTTLs
    /\ max_cache_size \in ConcCacheSizes
    /\ enable_async_refresh = TRUE
    /\ InitPool
    /\ now = 0
    /\ InitHistory
    /\ InitThreads
    /\ InitAccessor
    /\ InitNoHandler

NextAccessor ==
    \/ \E t \in Threads : PoolCall(t)
    \/ \E t \in Threads : PoolCheck(t)
    \/ \E t \in Threads : PoolConstruct(t)
    \/ \E t \in Threads : PoolAssign(t)
    \/ \E t \in Threads : PoolReturn(t)

SpecAccessor == InitAccessorCalls /\ [][NextAccessor]_vars

\* ----------------------------------------------------------- json.loads
\* Argument payloads are strings over a small alphabet; json.loads is the
\* decoder of the JSON that alphabet can spell (no white space, no escapes,
\* no literals): objects, arrays, strings and digit runs.  A decoded value
\* is tagged with its Python type.
Digits == {"1", "2"}

\* A dict is its items in insertion order, each [k |-> key, v |-> value].
JObj(items) == [t |-> "dict", v |-> items]
JArr(a) == [t |-> "list", v |-> a]
JStr(x) == [t |-> "str", v |-> x]
JNum(x) == [t |-> "int", v |-> x]

\* d[k] = v: a present key keeps its place, a new key goes last
ItemSet(items, k, v) ==
    IF \E i \in 1..Len(items) : items[i].k = k
    THEN [i \in 1..Len(items) |->
              IF items[i].k = k THEN [k |-> k, v |-> v] ELSE items[i]]
    ELSE Append(items, [k |-> k, v |-> v])

ParseFail == [ok |-> FALSE, val |-> <<>>, pos |-> 0]
Parsed(val, pos) == [ok |-> TRUE, val |-> val, pos |-> pos]

At(s, i) == IF i >= 1 /\ i <= Len(s) THEN s[i] ELSE ""

\* the string starting with the quote at i: up to the next quote
ParseString(s, i) ==
    IF \E j \in (i + 1)..Len(s) : s[j] = "\""
    THEN LET j == CHOOSE j \in (i + 1)..Len(s) :
                      /\ s[j] = "\""
                      /\ \A k \in (i + 1)..(j - 1) : s[k] # "\""
         IN  Parsed(JStr(SubSeq(s, i + 1, j - 1)), j + 1)
    ELSE ParseFail

\* the longest run of digits starting at i
ParseNumber(s, i) ==
    LET j == CHOOSE j \in i..Len(s) :
                 /\ \A k \in i..j : s[k] \in Digits
                 /\ At(s, j + 1) \notin Digits
    IN  Parsed(JNum(SubSeq(s, i, j)), j + 1)

RECURSIVE ParseValue(_, _), ParseMembers(_, _, _), ParseElements(_, _, _)

\* "key":value pairs up to the closing brace; a repeated key keeps the last
ParseMembers(s, i, acc) ==
    IF At(s, i) # "\"" THEN ParseFail
    ELSE LET k == ParseString(s, i)
         IN  IF ~k.ok \/ At(s, k.pos) # ":" THEN ParseFail
             ELSE LET v == ParseValue(s, k.pos + 1)
                  IN  IF ~v.ok THEN ParseFail
                      ELSE LET acc2 == ItemSet(acc, k.val, v.val)
                           IN  IF At(s, v.pos) = ","
                               THEN ParseMembers(s, v.pos + 1, acc2)
                               ELSE IF At(s, v.pos) = "}"
                                    THEN Parsed(JObj(acc2), v.pos + 1)
                                    ELSE ParseFail

ParseElements(s, i, acc) ==
    LET v == ParseValue(s, i)
    IN  IF ~v.ok THEN ParseFail
        ELSE LET acc2 == Append(acc, v.val)
             IN  IF At(s, v.pos) = ","
                 THEN ParseElements(s, v.pos + 1, acc2)
                 ELSE IF At(s, v.pos) = "]"
                      THEN Parsed(JArr(acc2), v.pos + 1)
                      ELSE ParseFail

ParseValue(s, i) ==
    LET c == At(s, i)
    IN  IF c = "{"
        THEN IF At(s, i + 1) = "}" THEN Parsed(JObj(<<>>), i + 2)
             ELSE ParseMembers(s, i + 1, <<>>)
        ELSE IF c = "["
        THEN IF At(s, i + 1) = "]" THEN Parsed(JArr(<<>>), i + 2)
             ELSE ParseElements(s, i + 1, <<>>)
        ELSE IF c = "\"" THEN ParseString(s, i)
        ELSE IF c \in Digits THEN ParseNumber(s, i)
        ELSE ParseFail

\* json.loads(text): the value, or JSONDecodeError (ok = FALSE) when no
\* value starts the text or text follows the value.
JsonLoads(text) ==
    LET r == ParseValue(text, 1)
    IN  IF r.ok /\ r.pos = Len(text) + 1 THEN r ELSE ParseFail

\* '}{"' in arguments
HasConcatPattern(text) ==
    \E i \in 1..(Len(text) - 2) :
        text[i] = "}" /\ text[i + 1] = "{" /\ text[i + 2] = "\""

\* The splitting loop: st = [parts, current_part, brace_count].
SplitChar(st, char) ==
    LET opened == char = "{" /\ st.brace_count = 0 /\ st.current_part # <<>>
    IN  [parts |-> IF opened THEN Append(st.parts, st.current_part)
                   ELSE st.parts,
         current_part |-> (IF opened THEN <<>> ELSE st.current_part)
                              \o <<char>>,
         brace_count |-> IF char = "{" THEN st.brace_count + 1
                         ELSE IF char = "}" THEN st.brace_count - 1
                         ELSE st.brace_count]

RECURSIVE SplitFrom(_, _, _)
SplitFrom(text, i, st) ==
    IF i > Len(text) THEN st ELSE SplitFrom(text, i + 1, SplitChar(st, text[i]))

JsonParts(text) ==
    LET st == SplitFrom(text, 1, [parts |-> <<>>, current_part |-> <<>>,
                                  brace_count |-> 0])
    IN  IF st.current_part # <<>> THEN Append(st.parts, st.current_part)
        ELSE st.parts

\* One element of the iterable given to dict.update, read as a key/value
\* pair: an element that is not iterable or whose first item is unhashable
\* raises TypeError, one that does not have two items raises ValueError.
PairOf(x) ==
    IF x.t = "int" THEN [exc |-> "TypeError", k |-> <<>>, v |-> <<>>]
    ELSE IF Len(x.v) # 2 THEN [exc |-> "ValueError", k |-> <<>>, v |-> <<>>]
    ELSE IF x.t = "str"
    THEN [exc |-> "", k |-> JStr(<<x.v[1]>>), v |-> JStr(<<x.v[2]>>)]
    ELSE IF x.t = "dict" THEN [exc |-> "", k |-> x.v[1].k, v |-> x.v[2].k]
    ELSE IF x.v[1].t \in {"list", "dict"}
    THEN [exc |-> "TypeError", k |-> <<>>, v |-> <<>>]
    ELSE [exc |-> "", k |-> x.v[1], v |-> x.v[2]]

\* the elements of an iterable, as Python iterates it
IterOf(x) ==
    IF x.t = "list" THEN x.v
    ELSE IF x.t = "str" THEN [i \in 1..Len(x.v) |-> JStr(<<x.v[i]>>)]
    ELSE [i \in 1..Len(x.v) |-> x.v[i].k]

RECURSIVE UpdatePairs(_, _)
UpdatePairs(d, xs) ==
    IF xs = <<>> THEN [exc |-> "", val |-> d]
    ELSE LET p == PairOf(Head(xs))
         IN  IF p.exc # "" THEN [exc |-> p.exc, val |-> d]
             ELSE UpdatePairs(ItemSet(d, p.k, p.v), Tail(xs))

RECURSIVE UpdateItems(_, _)
UpdateItems(d, items) ==
    IF items = <<>> THEN d
    ELSE UpdateItems(ItemSet(d, Head(items).k, Head(items).v), Tail(items))

\* merged_args.update(part_args): a mapping is merged item by item, an
\* iterable of pairs pair by pair, a number raises TypeError.
DictUpdate(d, x) ==
    IF x.t = "dict" THEN [exc |-> "", val |-> UpdateItems(d, x.v)]
    ELSE IF x.t = "int" THEN [exc |-> "TypeError", val |-> d]
    ELSE UpdatePairs(d, IterOf(x))

\* The merging loop over the parts; a part that does not decode is skipped.
RECURSIVE MergeParts(_, _)
MergeParts(merged_args, json_parts) ==
    IF json_parts = <<>> THEN [exc |-> "", val |-> merged_args]
    ELSE LET part_args == JsonLoads(Head(json_parts))
         IN  IF ~part_args.ok THEN MergeParts(merged_args, Tail(json_parts))
             ELSE LET u == DictUpdate(merged_args, part_args.val)
                  IN  IF u.exc # "" THEN u
                      ELSE MergeParts(u.val, Tail(json_parts))

DecodeArgumentsStrict(arguments) ==
    LET r == JsonLoads(arguments)
    IN  IF r.ok THEN [exc |-> "", val |-> r.val]
        ELSE [exc |-> "JSONDecodeError", val |-> <<>>]

\* The decoding of the raw arguments: the decoded value, or the exception
\* raised inside the try block.
DecodeArguments(arguments) ==
    IF arguments # <<>>
    THEN LET r == JsonLoads(arguments)
         IN  IF r.ok THEN [exc |-> "", val |-> r.val]
             ELSE IF HasConcatPattern(arguments)
                  THEN LET m == MergeParts(<<>>, JsonParts(arguments))
                       IN  [exc |-> m.exc, val |-> JObj(m.val)]
                  ELSE [exc |-> "JSONDecodeError", val |-> <<>>]
    ELSE [exc |-> "", val |-> JObj(<<>>)]

\* ---------------------------------------------------------- the registry
\* The table the @register_function decorators fill: name -> ToolType.
AllFunctionRegistry ==
    "handle_exit_intent" :> "SYSTEM_CTL" @@ "plugin_loader" :> "SYSTEM_CTL"
    @@ "get_time" :> "WAIT" @@ "get_lunar" :> "WAIT"
    @@ "send_email" :> "SYSTEM_CTL" @@ "save_weather_to_db" :> "SYSTEM_CTL"
    @@ "onvif_camera_control" :> "SYSTEM_CTL"
    @@ "vision_camera_analysis" :> "SYSTEM_CTL"
    @@ "get_weather_cached" :> "SYSTEM_CTL"
    @@ "change_role" :> "CHANGE_SYS_PROMPT" @@ "hass_set_state" :> "IOT_CTL"
    @@ "search_from_ragflow" :> "NONE"

SeqHas(xs, x) == \E i \in 1..Len(xs) : xs[i] = x

\* FunctionRegistry.register_function(name): a known name is added once
RegisterFunction(registry, name) ==
    IF name \in DOMAIN AllFunctionRegistry /\ ~SeqHas(registry, name)
    THEN Append(registry, name)
    ELSE registry

RECURSIVE RegisterAll(_, _)
RegisterAll(registry, names) ==
    IF names = <<>> THEN registry
    ELSE RegisterAll(RegisterFunction(registry, Head(names)), Tail(names))

\* FunctionRegistry.get_function(name): the item's ToolType, or None
GetFunction(registry, name) ==
    IF SeqHas(registry, name) THEN AllFunctionRegistry[name] ELSE ""

RegisterNessaryFunctions(registry) ==
    RegisterAll(registry,
                <<"handle_exit_intent", "plugin_loader", "get_time", "get_lunar">>)

ForceFunctionAlways(config_functions, name) == Append(config_functions, name)

\* config_functions = config_functions + [name] if it is not in the list
ForceFunction(config_functions, name) ==
    IF SeqHas(config_functions, name) THEN config_functions
    ELSE Append(config_functions, name)

\* config_functions after the four forced additions
WithForced(config_functions) ==
    ForceFunction(ForceFunction(ForceFunction(ForceFunction(
        config_functions, "send_email"), "save_weather_to_db"),
        "onvif_camera_control"), "vision_camera_analysis")

RegisterConfigFunctions(registry, config_functions) ==
    RegisterAll(registry, WithForced(config_functions))

\* The configured "functions" lists the model tries.
ConfigFunctionLists ==
    { <<>>,
      <<"get_weather_cached", "change_role">>,
      <<"send_email", "hass_set_state", "search_from_ragflow">> }

\* The names a caller may ask for: registered ones and one that never is.
CallNames ==
    {"get_time", "send_email", "get_weather_cached", "change_role",
     "hass_set_state", "search_from_ragflow", "no_such_function"}

\* The raw argument strings a caller may pass; the empty one stands for
\* every falsy payload ("" and None), which "if arguments:" treats alike.
ArgumentTexts ==
    { <<>>,
      <<"{", "\"", "a", "\"", ":", "1", "}">>,
      <<"{", "\"", "a", "\"", ":", "1", "}",
        "{", "\"", "b", "\"", ":", "2", "}">>,
      <<"{", "\"", "a", "\"", ":", "1", "}", "{", "x", "}",
        "{", "\"", "b", "\"", ":", "2", "}">>,
      <<"{", "\"", "a", "\"", ":", "1", "}", "{", "b", "}">>,
      <<"x", "x">>,
      <<"[", "1", "]">>,
      <<"[", "[", "\"", "a", "\"", ",", "1", "]", "]",
        "{", "\"", "a", "\"", ":", "2", "}", "{", "\"", "b", "\"", ":", "2", "}">>,
      <<"1", "{", "\"", "a", "\"", ":", "1", "}",
        "{", "\"", "b", "\"", ":", "2", "}">>,
      <<"{", "\"", "a", "\"", ":", "\"", "}", "{", "\"", "}",
        "{", "\"", "b", "\"", ":", "2", "}">> }

\* ------------------------------------------------ FunctionHandler.__init__
\* A description is the sequence of the pieces of its text; "[plugins]" is
\* the placeholder of plugin_loader's description.
FunctionDesc(name, placeholder) ==
    [name |-> name,
     description |-> IF name # "plugin_loader" THEN <<"does", name>>
                     ELSE IF placeholder THEN <<"loads", "[plugins]", "only">>
                     ELSE <<"loads", "plugins">>]

\* FunctionRegistry.get_all_function_desc(): the descriptions of the
\* registered functions, in registration order
GetAllFunctionDesc(registry, placeholder) ==
    [i \in 1..Len(registry) |-> FunctionDesc(registry[i], placeholder)]

CurrentSupportFunctions(functions_desc) ==
    [i \in 1..Len(functions_desc) |-> functions_desc[i].name]

\* ",".join(names)
RECURSIVE Join(_)
Join(names) ==
    IF names = <<>> THEN <<>>
    ELSE IF Len(names) = 1 THEN names
    ELSE <<Head(names), ",">> \o Join(Tail(names))

\* description.replace(old, new): every occurrence is replaced
RECURSIVE Replace(_, _, _)
Replace(description, old, new) ==
    IF description = <<>> THEN <<>>
    ELSE (IF Head(description) = old THEN new ELSE <<Head(description)>>)
             \o Replace(Tail(description), old, new)

IsNotPluginLoader(func) == func # "plugin_loader"

ModifyPluginLoaderDesKeepAll(functions_desc, func_names) ==
    [i \in 1..Len(functions_desc) |->
        IF functions_desc[i].name = "plugin_loader"
        THEN [functions_desc[i] EXCEPT
                 !.description = Replace(@, "[plugins]", Join(func_names))]
        ELSE functions_desc[i]]

\* Only the first description named plugin_loader is rewritten (break).
ModifyPluginLoaderDes(functions_desc, func_names) ==
    IF ~SeqHas(func_names, "plugin_loader") THEN functions_desc
    ELSE LET surport_plugins == SelectSeq(func_names, IsNotPluginLoader)
             first == CHOOSE i \in 1..Len(functions_desc) :
                          /\ functions_desc[i].name = "plugin_loader"
                          /\ \A j \in 1..(i - 1) :
                                functions_desc[j].name # "plugin_loader"
         IN  [functions_desc EXCEPT
                 ![first].description =
                     Replace(@, "[plugins]", Join(surport_plugins))]

\* The order of the statements of __init__: the statement after pc.
AfterInitStepEarlyModify(step) ==
    CASE step = "new" -> "register_nessary"
      [] step = "register_nessary" -> "describe"
      [] step = "describe" -> "modify"
      [] step = "modify" -> "register_config"
      [] step = "register_config" -> "ready"

AfterInitStep(step) ==
    CASE step = "new" -> "register_nessary"
      [] step = "register_nessary" -> "register_config"
      [] step = "register_config" -> "describe"
      [] step = "describe" -> "modify"
      [] step = "modify" -> "ready"

\* The handler __init__ leaves behind for a configuration.
ReadyHandler(config_functions, placeholder) ==
    LET registry == RegisterConfigFunctions(RegisterNessaryFunctions(<<>>),
                                            config_functions)
        descs == GetAllFunctionDesc(registry, placeholder)
    IN  [pc |-> "ready", config |-> config_functions,
         placeholder |-> placeholder,
         forced |-> WithForced(config_functions),
         functions_desc |->
             ModifyPluginLoaderDes(descs, CurrentSupportFunctions(descs)),
         finish_init |-> TRUE, runs |-> 1, before |-> descs]

HandlerFrame ==
    UNCHANGED <<confvars, accvars, poolvars, now, histvars, threadvars, call>>

\* self.function_registry = FunctionRegistry()
NewRegistry ==
    /\ handler.pc = "new"
    /\ function_registry' = <<>>
    /\ handler' = [handler EXCEPT !.pc = AfterInitStep("new")]
    /\ HandlerFrame

RegisterNessary ==
    /\ handler.pc = "register_nessary"
    /\ function_registry' = RegisterNessaryFunctions(function_registry)
    /\ handler' = [handler EXCEPT !.pc = AfterInitStep("register_nessary")]
    /\ HandlerFrame

RegisterConfig ==
    /\ handler.pc = "register_config"
    /\ function_registry' =
           RegisterConfigFunctions(function_registry, handler.config)
    /\ handler' = [handler EXCEPT !.pc = AfterInitStep("register_config"),
                                  !.forced = WithForced(handler.config)]
    /\ HandlerFrame

\* self.functions_desc = self.function_registry.get_all_function_desc()
DescribeAll ==
    /\ handler.pc = "describe"
    /\ handler' = [handler EXCEPT
           !.pc = AfterInitStep("describe"),
           !.functions_desc =
               GetAllFunctionDesc(function_registry, handler.placeholder)]
    /\ UNCHANGED function_registry
    /\ HandlerFrame

\* func_names = current_support_functions(); modify_plugin_loader_des(func_names)
ModifyDes ==
    /\ handler.pc = "modify"
    /\ handler' = [handler EXCEPT
           !.pc = AfterInitStep("modify"),
           !.functions_desc =
               ModifyPluginLoaderDes(@, CurrentSupportFunctions(@)),
           !.finish_init = (AfterInitStep("modify") = "ready"),
           !.runs = @ + 1,
           !.before = handler.functions_desc]
    /\ UNCHANGED function_registry
    /\ HandlerFrame

\* the substitution is run once more on the finished handler
ModifyDesAgain ==
    /\ handler.pc = "ready"
    /\ handler.runs < MaxRuns
    /\ handler' = [handler EXCEPT
           !.functions_desc =
               ModifyPluginLoaderDes(@, CurrentSupportFunctions(@)),
           !.runs = @ + 1,
           !.before = handler.functions_desc]
    /\ UNCHANGED function_registry
    /\ HandlerFrame

\* The names a configuration may list: forced ones, other registered ones,
\* an always-on one and one no plugin defines.
HandlerConfigNames ==
    {"send_email", "vision_camera_analysis", "get_weather_cached",
     "get_time", "no_such_function"}

HandlerConfigLists ==
    UNION { [1..n -> HandlerConfigNames] : n \in 0..MaxConfigLen }

InitHandler ==
    /\ weather_cache_ttl \in ConcWeatherTTLs
    /\ city_cache_ttl \in ConcCityTTLs
    /\ max_cache_size \in ConcCacheSizes
    /\ enable_async_refresh = TRUE
    /\ InitPool
    /\ now = 0
    /\ InitHistory
    /\ InitThreads
    /\ InitAccessor
    /\ function_registry = <<>>
    /\ call = NoCall
    /\ \E config_functions \in HandlerConfigLists, placeholder \in BOOLEAN :
          handler = [NoHandler EXCEPT !.pc = "new",
                                      !.config = config_functions,
                                      !.placeholder = placeholder]

NextHandler ==
    \/ NewRegistry
    \/ RegisterNessary
    \/ RegisterConfig
    \/ DescribeAll
    \/ ModifyDes
    \/ ModifyDesAgain

SpecHandler == InitHandler /\ [][NextHandler]_vars

\* ------------------------------------------------------- the dispatcher
\* The exception classes the model raises; all derive from Exception.
ExceptionClasses ==
    {"JSONDecodeError", "TypeError", "ValueError", "KeyError",
     "AttributeError", "RuntimeError"}

CatchesDecodeErrorOnly(exc) == exc = "JSONDecodeError"

\* "except Exception as e:" around the whole body
Catches(exc) == exc \in ExceptionClasses

\* ActionResponse(action=Action.NOTFOUND, result="没有找到对应的函数", response="")
NotFoundResponse == <<[action |-> "NOTFOUND", result |-> "not found", response |-> ""]>>

\* What the capability callables return.
FuncResponses ==
    { <<[action |-> a, result |-> "text", response |-> ""]>> :
          a \in {"REQLLM", "RESPONSE", "NONE"} }

At_(c, phase) == [c EXCEPT !.trace = Append(@, phase)]

RaiseAsNotFound(c, exc) ==
    [At_(c, "ERROR") EXCEPT !.logged = exc, !.result = NotFoundResponse,
                            !.pc = "done"]

\* An exception raised inside the try block: logged by the handler, after
\* which the function returns None; otherwise it leaves the function.
Raise(c, exc) ==
    IF Catches(exc)
    THEN [At_(c, "ERROR") EXCEPT !.logged = exc, !.result = None, !.pc = "done"]
    ELSE [At_(c, "ERROR") EXCEPT !.escaped = exc, !.pc = "done"]

LookupStepDeferred(c, registry) ==
    [At_(c, "LOOKED_UP") EXCEPT !.funcItem = GetFunction(registry, c.name),
                                !.pc = "decode"]

LookupStepUnchecked(c, registry) ==
    LET funcItem == GetFunction(registry, c.name)
    IN  IF funcItem = "" THEN Raise(c, "AttributeError")
        ELSE [At_(c, "LOOKED_UP") EXCEPT !.funcItem = funcItem, !.pc = "decode"]

\* function_name, funcItem, "if not funcItem: return NOTFOUND", func
LookupStep(c, registry) ==
    LET funcItem == GetFunction(registry, c.name)
    IN  IF funcItem = ""
        THEN [At_(c, "NOT_FOUND") EXCEPT !.result = NotFoundResponse,
                                         !.pc = "done"]
        ELSE [At_(c, "LOOKED_UP") EXCEPT !.funcItem = funcItem, !.pc = "decode"]

DecodeStepEmptyOnError(c) ==
    IF ~c.arguments.has THEN Raise(c, "KeyError")
    ELSE LET d == DecodeArguments(c.arguments.text)
         IN  IF d.exc = "JSONDecodeError"
             THEN [At_(c, "ARG_DECODED") EXCEPT !.args = JObj(<<>>),
                                                !.pc = "invoke"]
             ELSE IF d.exc # "" THEN Raise(c, d.exc)
             ELSE [At_(c, "ARG_DECODED") EXCEPT !.args = d.val, !.pc = "invoke"]

\* arguments = function_call_data["arguments"] and its decoding
DecodeStep(c) ==
    IF ~c.arguments.has THEN Raise(c, "KeyError")
    ELSE LET d == DecodeArguments(c.arguments.text)
         IN  IF d.exc # "" THEN Raise(c, d.exc)
             ELSE [At_(c, "ARG_DECODED") EXCEPT !.args = d.val, !.pc = "invoke"]

\* **arguments takes a mapping whose keys are all strings
IsKeywords(x) == x.t = "dict" /\ \A i \in 1..Len(x.v) : x.v[i].k.t = "str"

\* func(conn, **arguments) or func(**arguments): the callable is entered
\* when the arguments unpack as keywords; outcome is what it does: a
\* response it returns (<<r>>) or an exception class it raises.
CallFunc(c, with_conn, outcome) ==
    IF ~IsKeywords(c.args) THEN Raise(At_(c, "DISPATCHED"), "TypeError")
    ELSE LET e == [At_(c, "DISPATCHED") EXCEPT
                      !.invoked = Append(@, [conn |-> with_conn,
                                             kwargs |-> c.args.v,
                                             returns |-> outcome.returns])]
         IN  IF outcome.raises # "" THEN Raise(e, outcome.raises)
             ELSE [At_(e, "SUCCEEDED") EXCEPT !.result = outcome.returns,
                                              !.pc = "done"]

InvokeStepCallsUnknown(c, outcome) ==
    IF c.funcItem = "WAIT" THEN CallFunc(c, FALSE, outcome)
    ELSE CallFunc(c, TRUE, outcome)

InvokeStepWithConn(c, outcome) ==
    IF c.funcItem \in {"SYSTEM_CTL", "IOT_CTL", "WAIT", "CHANGE_SYS_PROMPT"}
    THEN CallFunc(c, TRUE, outcome)
    ELSE [At_(At_(c, "DISPATCHED"), "NOT_FOUND") EXCEPT
             !.result = NotFoundResponse, !.pc = "done"]

\* the if / elif chain on funcItem.type
InvokeStep(c, outcome) ==
    IF c.funcItem = "SYSTEM_CTL" \/ c.funcItem = "IOT_CTL"
    THEN CallFunc(c, TRUE, outcome)
    ELSE IF c.funcItem = "WAIT" THEN CallFunc(c, FALSE, outcome)
    ELSE IF c.funcItem = "CHANGE_SYS_PROMPT" THEN CallFunc(c, TRUE, outcome)
    ELSE [At_(At_(c, "DISPATCHED"), "NOT_FOUND") EXCEPT
             !.result = NotFoundResponse, !.pc = "done"]

Outcomes ==
    {[raises |-> "", returns |-> r] : r \in FuncResponses}
        \cup {[raises |-> e, returns |-> None] : e \in {"TypeError", "RuntimeError"}}

DispFrame ==
    UNCHANGED <<confvars, accvars, poolvars, now, histvars, threadvars,
                function_registry, handler>>

\* handle_llm_function_call(conn, function_call_data) is entered
Receive ==
    /\ call.pc = "idle"
    /\ \E name \in CallNames, has \in BOOLEAN, text \in ArgumentTexts :
          /\ has \/ text = <<>>
          /\ call' = [NoCall EXCEPT !.pc = "lookup", !.name = name,
                                    !.arguments = [has |-> has, text |-> text],
                                    !.trace = <<"RECEIVED">>]
    /\ DispFrame

Lookup ==
    /\ call.pc = "lookup"
    /\ call' = LookupStep(call, function_registry)
    /\ DispFrame

Decode ==
    /\ call.pc = "decode"
    /\ call' = DecodeStep(call)
    /\ DispFrame

Invoke ==
    /\ call.pc = "invoke"
    /\ \E outcome \in Outcomes : call' = InvokeStep(call, outcome)
    /\ DispFrame

\* the caller has the result; the handler is ready for the next call
Return ==
    /\ call.pc = "done"
    /\ call' = NoCall
    /\ DispFrame

\* FunctionHandler.__init__: the always-on and the configured registrations
InitDisp ==
    /\ weather_cache_ttl \in ConcWeatherTTLs
    /\ city_cache_ttl \in ConcCityTTLs
    /\ max_cache_size \in ConcCacheSizes
    /\ enable_async_refresh = TRUE
    /\ InitPool
    /\ now = 0
    /\ InitHistory
    /\ InitThreads
    /\ InitAccessor
    /\ \E config_functions \in ConfigFunctionLists :
          /\ function_registry =
                 RegisterConfigFunctions(RegisterNessaryFunctions(<<>>),
                                         config_functions)
          /\ handler = ReadyHandler(config_functions, TRUE)
    /\ call = NoCall

NextDisp == Receive \/ Lookup \/ Decode \/ Invoke \/ Return

SpecDisp == InitDisp /\ [][NextDisp]_vars

\* ---------------------------------------------------------------- claims
LastGet == ret.op = "get"
LivePutOfGet == live[<<ret.ns, ret.location>>]

\* C1 as claimed: a Get of (namespace, subject) whose last Put is still
\* stored (not evicted, cleared or replaced) and has now < expires_at
\* returns the value of that Put, whatever the hour bucket of now.
C1_GetReturnsPutBeforeExpiry ==
    (LastGet /\ LivePutOfGet # <<>> /\ now < LivePutOfGet[1].expires_at)
        => ret.val = LivePutOfGet[1].data

\* C1 amended: the same, for a city Get at any such time and for a weather
\* Get in the wall-clock hour of the Put.
C1_GetReturnsPutInSameBucket ==
    (/\ LastGet
     /\ LivePutOfGet # <<>>
     /\ now < LivePutOfGet[1].expires_at
     /\ ret.ns = "weather" => HourOf(now) = HourOf(LivePutOfGet[1].created_at))
        => ret.val = LivePutOfGet[1].data

\* A weather Get, later than the Put and in its hour, returned the value.
C1_Witness ==
    /\ LastGet
    /\ ret.ns = "weather"
    /\ LivePutOfGet # <<>>
    /\ HourOf(now) = HourOf(LivePutOfGet[1].created_at)
    /\ now < LivePutOfGet[1].expires_at
    /\ now > LivePutOfGet[1].created_at
    /\ ret.val = LivePutOfGet[1].data

C3_OnlyOldestEvicted ==
    (/\ fresh.ok
     /\ Len(fresh.keys) = max_cache_size + 1
     /\ \A i \in 1..Len(fresh.keys) : now <= fresh.keys[i].exp)
        => StoreKeys(Pool) = {fresh.keys[i].key : i \in 2..Len(fresh.keys)}

\* C4 as claimed: after a Get hit on K, Puts of new keys that have
\* triggered exactly one eviction have left K in the pool.
C4_HitKeySurvivesOneEviction ==
    (hit.key # <<>> /\ hit.ev = 1) => hit.key \in StoreKeys(Pool)

\* C4 amended: the same, when at the time of the hit some other key's last
\* access was strictly older than the hit.
C4_HitKeySurvivesIfOlderKey ==
    (hit.key # <<>> /\ hit.ev = 1 /\ hit.strict)
        => /\ hit.key \in StoreKeys(Pool)
           /\ AccessHas(access_order, hit.key)

\* One eviction after the hit, and the hit key is still stored.
C4_Witness ==
    /\ hit.key # <<>>
    /\ hit.ev = 1
    /\ hit.strict
    /\ hit.key \in StoreKeys(Pool)

\* C7: between calls the two stores together hold at most max_cache_size
\* entries.
C7_SizeWithinCapacity == TotalEntries(Pool) <= max_cache_size

\* An eviction has happened and the pool holds as much as it ever does.
C7_Witness ==
    /\ stats.evictions > 0
    /\ max_cache_size > 1
    /\ TotalEntries(Pool) = max_cache_size - 1

EvictPCs == {"evict_check", "evict_loop", "evict_release"}
ReadPCs == {"get_body", "clean_weather", "clean_city", "stats_read"}
LockPCs == {"put_lock", "get_lock", "clean_lock"}

\* C5: whenever no thread holds the pool lock, the keys of the access index
\* are exactly the keys of the two entry stores.
C5_IndexMatchesStores ==
    LockFree => AccessKeys(access_order) = StoreKeys(Pool)

\* The lock is free, another call is already under way, and the pool holds
\* an entry after an eviction.
C5_Witness ==
    /\ LockFree
    /\ \E t \in Threads : pc[t] \in LockPCs
    /\ stats.evictions > 0
    /\ StoreKeys(Pool) # {}
    /\ AccessKeys(access_order) = StoreKeys(Pool)

\* C6: while a thread is inside the eviction pass no other thread is inside
\* it, and no other thread is reading or iterating the index or a store.
C6_EvictionExclusive ==
    \A t \in Threads : \A u \in Threads \ {t} :
        pc[t] \in EvictPCs => pc[u] \notin EvictPCs \cup ReadPCs

\* A thread is removing a victim while another waits for the lock.
C6_Witness ==
    \E t \in Threads : \E u \in Threads \ {t} :
        /\ pc[t] = "evict_loop"
        /\ local[t].victims # <<>>
        /\ pc[u] \in LockPCs


\* The invocation under way has ended and its caller has the outcome.
CallDone == call.pc = "done"

Registered == SeqHas(function_registry, call.name)

\* The payload is non-empty, fails strict decoding and has no '}{"' in it.
Undecodable(text) ==
    text # <<>> /\ ~JsonLoads(text).ok /\ ~HasConcatPattern(text)

\* C8: a call that names a capability the registry does not hold ends with
\* the NOTFOUND response, with no capability callable invoked and no
\* exception leaving the dispatcher, whatever the argument payload is
\* (absent, empty, valid, repairable or undecodable).
C8_UnregisteredIsNotFound ==
    (CallDone /\ ~Registered) =>
        /\ call.result = NotFoundResponse
        /\ call.result[1].action = "NOTFOUND"
        /\ call.invoked = <<>>
        /\ call.escaped = ""

C8_Witness ==
    /\ CallDone
    /\ ~Registered
    /\ Undecodable(call.arguments.text)
    /\ call.result = NotFoundResponse

\* The capability callable was entered and did not return: it raised.
CallableRaised ==
    CallDone /\ call.invoked # <<>> /\ ~SeqHas(call.trace, "SUCCEEDED")

\* C9: when the invoked capability callable raises an exception (any class
\* derived from Exception), the dispatcher catches it and returns None: no
\* exception reaches the caller, and the returned value is not the NOTFOUND
\* response.
C9_CallableErrorReturnsNone ==
    CallableRaised =>
        /\ call.escaped = ""
        /\ call.logged # ""
        /\ call.result = None
        /\ call.result # NotFoundResponse

C9_Witness ==
    /\ CallableRaised
    /\ call.logged = "RuntimeError"
    /\ call.result = None

\* C10 as stated: an undecodable payload without the concatenation pattern,
\* sent to a registered capability, ends the call with the decode error
\* propagated to the dispatcher's caller.
C10_DecodeErrorPropagates ==
    (CallDone /\ Registered /\ call.arguments.has
        /\ Undecodable(call.arguments.text)) =>
            call.escaped = "JSONDecodeError"

\* C10: an undecodable payload without the concatenation pattern, sent to
\* a registered capability, ends the call without invoking the callable:
\* the decode error raised by the decoding step is caught by the
\* dispatcher's own handler and logged, no exception reaches the caller,
\* and the dispatcher returns None.
C10_DecodeErrorReturnsNone ==
    (CallDone /\ Registered /\ call.arguments.has
        /\ Undecodable(call.arguments.text)) =>
            /\ call.logged = "JSONDecodeError"
            /\ call.escaped = ""
            /\ call.result = None
            /\ call.invoked = <<>>

C10_Witness ==
    /\ CallDone
    /\ Registered
    /\ Undecodable(call.arguments.text)
    /\ call.logged = "JSONDecodeError"
    /\ call.trace = <<"RECEIVED", "LOOKED_UP", "ERROR">>

\* The repair pass ran on the payload of the call: strict decoding failed
\* and the text has '}{"' in it.
RepairApplied ==
    /\ call.arguments.has
    /\ call.arguments.text # <<>>
    /\ ~JsonLoads(call.arguments.text).ok
    /\ HasConcatPattern(call.arguments.text)

\* The fragments a payload may be the concatenation of.
Fragments ==
    { <<"{", "\"", "a", "\"", ":", "1", "}">>,
      <<"{", "\"", "b", "\"", ":", "2", "}">>,
      <<"{", "\"", "a", "\"", ":", "2", "}">>,
      <<"{", "x", "}">>,
      <<"{", "\"", "a", "\"", ":", "\"", "}", "{", "\"", "}">> }

FragmentLists ==
    { <<f, g>> : f \in Fragments, g \in Fragments }
        \cup { <<f, g, h>> : f \in Fragments, g \in Fragments, h \in Fragments }

RECURSIVE Concat(_)
Concat(fs) == IF fs = <<>> THEN <<>> ELSE Head(fs) \o Concat(Tail(fs))

\* The items of the fragments that are valid JSON objects by themselves,
\* merged in order, a later fragment overriding an earlier one.
RECURSIVE MergeValid(_, _)
MergeValid(d, fs) ==
    IF fs = <<>> THEN d
    ELSE LET r == JsonLoads(Head(fs))
         IN  MergeValid(IF r.ok /\ r.val.t = "dict" THEN UpdateItems(d, r.val.v)
                        ELSE d, Tail(fs))

HasItem(items, it) == \E i \in 1..Len(items) : items[i] = it

\* C11: when the repair pass is applied to a payload that is the
\* concatenation of two or more fragments, the call goes on with decoded
\* arguments that hold every key/value pair of every fragment that is a
\* valid JSON object by itself (later fragments overriding earlier ones),
\* the unparseable fragments being dropped; also when a string value of a
\* fragment has a brace in it.
C11_RepairKeepsValidFragments ==
    (CallDone /\ Registered /\ RepairApplied) =>
        \A fs \in FragmentLists :
            Concat(fs) = call.arguments.text =>
                /\ call.args # <<>>
                /\ LET want == MergeValid(<<>>, fs)
                   IN  \A i \in 1..Len(want) : HasItem(call.args.v, want[i])

\* The ToolTypes the dispatcher has a calling convention for.
CallableTypes == {"SYSTEM_CTL", "IOT_CTL", "WAIT", "CHANGE_SYS_PROMPT"}

\* C12: whenever strict decoding fails and the payload has the
\* concatenation pattern, the repair pass yields an argument object and the
\* call goes on to invoke the capability; no part produced by the split,
\* one that decodes to a number or an array included, aborts the call.
C12_RepairAlwaysProceeds ==
    (CallDone /\ Registered /\ RepairApplied
        /\ call.funcItem \in CallableTypes) =>
            /\ call.args # <<>>
            /\ call.args.t = "dict"
            /\ call.invoked # <<>>

\* The action tags the responses of the model carry.
ActionTags == {"NOTFOUND"} \cup {r[1].action : r \in FuncResponses}

LastState == call.trace[Len(call.trace)]

\* C13 as stated: every terminal state of a call (SUCCEEDED, NOT_FOUND and
\* ERROR) returns a response object carrying an action tag of the tag set.
C13_EveryTerminalTagged ==
    CallDone =>
        /\ call.result # None
        /\ call.result[1].action \in ActionTags

\* C13: a call that ends in SUCCEEDED or NOT_FOUND returns a response
\* object carrying an action tag of the tag set; a call that ends in ERROR
\* returns None, a value with no action tag.
C13_TerminalTaggedUnlessError ==
    CallDone =>
        /\ LastState \in {"SUCCEEDED", "NOT_FOUND", "ERROR"}
        /\ LastState = "ERROR" => call.result = None
        /\ LastState # "ERROR" =>
              /\ call.result # None
              /\ call.result[1].action \in ActionTags

C13_Witness ==
    /\ CallDone
    /\ LastState = "ERROR"
    /\ call.logged = "KeyError"
    /\ call.result = None

\* The states a call passes through, the lookup mark left out.
RECURSIVE WithoutLookup(_)
WithoutLookup(tr) ==
    IF tr = <<>> THEN <<>>
    ELSE IF Head(tr) = "LOOKED_UP" THEN WithoutLookup(Tail(tr))
    ELSE <<Head(tr)>> \o WithoutLookup(Tail(tr))

IsPrefix(p, q) == Len(p) <= Len(q) /\ SubSeq(q, 1, Len(p)) = p

Terminals == {"SUCCEEDED", "NOT_FOUND", "ERROR"}

\* C14 as stated: a call passes through RECEIVED, ARG_DECODED, DISPATCHED
\* and a terminal state in this order, the payload being decoded before the
\* name is looked up: NOT_FOUND is reached only after the arguments were
\* decoded.
C14_DecodeBeforeLookup ==
    /\ \E x \in Terminals :
          IsPrefix(WithoutLookup(call.trace),
                   <<"RECEIVED", "ARG_DECODED", "DISPATCHED", x>>)
    /\ SeqHas(call.trace, "NOT_FOUND") => SeqHas(call.trace, "ARG_DECODED")

\* C14: the capability name is looked up before the payload is read or
\* decoded.  A call of an unregistered name goes from RECEIVED to NOT_FOUND
\* with the arguments never decoded; a call of a registered name goes
\* through RECEIVED, the lookup, ARG_DECODED, DISPATCHED and a terminal
\* state in this order, or ends in ERROR from the decoding.
C14_LookupBeforeDecode ==
    /\ \/ IsPrefix(call.trace, <<"RECEIVED", "NOT_FOUND">>)
       \/ IsPrefix(call.trace, <<"RECEIVED", "LOOKED_UP", "ERROR">>)
       \/ \E x \in Terminals :
             IsPrefix(call.trace, <<"RECEIVED", "LOOKED_UP", "ARG_DECODED",
                                    "DISPATCHED", x>>)
    /\ (CallDone /\ ~Registered) =>
          /\ call.trace = <<"RECEIVED", "NOT_FOUND">>
          /\ call.args = <<>>
    /\ SeqHas(call.trace, "ARG_DECODED") => Registered

C14_Witness ==
    /\ CallDone
    /\ ~Registered
    /\ JsonLoads(call.arguments.text).ok
    /\ call.arguments.text # <<>>
    /\ call.trace = <<"RECEIVED", "NOT_FOUND">>

\* The call has an "arguments" entry and its value is empty ("" or None).
EmptyPayload == call.arguments.has /\ call.arguments.text = <<>>

C16_InvokedByConvention ==
    /\ Len(call.invoked) <= 1
    /\ (CallDone /\ call.funcItem \in CallableTypes
           /\ SeqHas(call.trace, "DISPATCHED") /\ IsKeywords(call.args)) =>
              /\ Len(call.invoked) = 1
              /\ call.invoked[1].conn = (call.funcItem # "WAIT")
              /\ call.invoked[1].kwargs = call.args.v
    /\ (CallDone /\ LastState = "SUCCEEDED") =>
              /\ call.funcItem \in CallableTypes
              /\ Len(call.invoked) = 1
              /\ call.result = call.invoked[1].returns

C16_Witness ==
    /\ CallDone
    /\ call.funcItem = "WAIT"
    /\ LastState = "SUCCEEDED"
    /\ Len(call.invoked) = 1
    /\ ~call.invoked[1].conn
    /\ Len(call.invoked[1].kwargs) = 2
    /\ call.result = call.invoked[1].returns

\* The forced names, in the order register_config_functions adds them.
ForcedNames ==
    <<"send_email", "save_weather_to_db", "onvif_camera_control",
      "vision_camera_analysis">>

Count(xs, x) == Cardinality({i \in 1..Len(xs) : xs[i] = x})

\* The names of fs that xs does not have, in the order of fs.
RECURSIVE MissingFrom(_, _)
MissingFrom(fs, xs) ==
    IF fs = <<>> THEN <<>>
    ELSE (IF SeqHas(xs, Head(fs)) THEN <<>> ELSE <<Head(fs)>>)
             \o MissingFrom(Tail(fs), xs)

\* register_config_functions has run.
Assembled == handler.pc \in {"describe", "modify", "ready"}

\* C17: after the capability set is assembled from any configured list,
\* each forced name is registered exactly once: the list that is registered
\* is the configured list followed by the forced names it lacks, in their
\* fixed order, so a forced name the configuration has is not added again.
C17_ForcedRegisteredOnce ==
    Assembled =>
        /\ \A i \in 1..Len(ForcedNames) :
              Count(function_registry, ForcedNames[i]) = 1
        /\ handler.forced =
               handler.config \o MissingFrom(ForcedNames, handler.config)
        /\ \A i \in 1..Len(ForcedNames) :
              SeqHas(handler.config, ForcedNames[i]) =>
                  Count(handler.forced, ForcedNames[i])
                      = Count(handler.config, ForcedNames[i])

C17_Witness ==
    /\ handler.pc = "ready"
    /\ handler.config = <<"vision_camera_analysis", "get_weather_cached">>
    /\ handler.forced =
           <<"vision_camera_analysis", "get_weather_cached", "send_email",
             "save_weather_to_db", "onvif_camera_control">>
    /\ Count(function_registry, "vision_camera_analysis") = 1

\* The description functions_desc has for plugin_loader.
LoaderDescription ==
    LET i == CHOOSE i \in 1..Len(handler.functions_desc) :
                 handler.functions_desc[i].name = "plugin_loader"
    IN  handler.functions_desc[i].description

OtherNames == SelectSeq(function_registry, IsNotPluginLoader)

\* C18: after initialisation, when plugin_loader is registered and its
\* description has the placeholder, the placeholder is replaced by the
\* comma-joined names of all other registered capabilities in description
\* order: every other registered name is in the rendered list exactly once,
\* plugin_loader is not, and no other description is changed.
C18_PlaceholderListsOthers ==
    (handler.pc = "ready" /\ handler.placeholder
        /\ SeqHas(function_registry, "plugin_loader")) =>
            /\ LoaderDescription = <<"loads">> \o Join(OtherNames) \o <<"only">>
            /\ \A i \in 1..Len(OtherNames) :
                  Count(LoaderDescription, OtherNames[i]) = 1
            /\ Count(LoaderDescription, "plugin_loader") = 0
            /\ Count(LoaderDescription, "[plugins]") = 0
            /\ \A i \in 1..Len(handler.functions_desc) :
                  handler.functions_desc[i].name # "plugin_loader" =>
                      handler.functions_desc[i]
                          = FunctionDesc(function_registry[i], TRUE)

C18_Witness ==
    /\ handler.pc = "ready"
    /\ handler.placeholder
    /\ handler.config = <<"get_weather_cached">>
    /\ LoaderDescription =
           <<"loads", "handle_exit_intent", ",", "get_time", ",", "get_lunar",
             ",", "get_weather_cached", ",", "send_email", ",",
             "save_weather_to_db", ",", "onvif_camera_control", ",",
             "vision_camera_analysis", "only">>

\* C19: the placeholder substitution runs only after every registration,
\* of the always-on and of the configured and forced names, is done, and
\* running it again on the unchanged registry leaves every description as
\* it was.
C19_SubstitutionLastAndIdempotent ==
    /\ handler.runs >= 1 =>
          function_registry =
              RegisterConfigFunctions(RegisterNessaryFunctions(<<>>),
                                      handler.config)
    /\ handler.runs >= 2 => handler.functions_desc = handler.before

C19_Witness ==
    /\ handler.runs = 2
    /\ handler.placeholder
    /\ handler.functions_desc = handler.before
    /\ Count(LoaderDescription, ",") >= 6

LastNeedRefresh == ret.op = "need_refresh"

\* elapsed / total_ttl > threshold for the entry of the last _need_refresh
FractionExceeds ==
    LET e == ret.found[1]
    IN  (now - e.created_at) * ret.threshold.den
            > ret.threshold.num * (e.expires_at - e.created_at)

\* C20 as stated: NeedsRefresh(entry, threshold) returns true exactly when
\* (now - created_at) / (expires_at - created_at) > threshold.
C20_TrueIffFractionExceeds ==
    LastNeedRefresh => (ret.val[1] <=> FractionExceeds)

\* C20: with the refresh hint enabled, NeedsRefresh(entry, threshold)
\* returns true exactly when (now - created_at) / (expires_at - created_at)
\* > threshold, so it is false immediately after the Put that created the
\* entry and true at every later time at which the elapsed fraction exceeds
\* the threshold; with the hint disabled it returns false always.
C20_TrueIffEnabledAndFractionExceeds ==
    LastNeedRefresh =>
        /\ ret.found[1].expires_at > ret.found[1].created_at
        /\ ret.val[1] <=> (enable_async_refresh /\ FractionExceeds)
        /\ now = ret.found[1].created_at => ~ret.val[1]

C20_Witness ==
    /\ LastNeedRefresh
    /\ enable_async_refresh
    /\ ret.val[1]
    /\ now < ret.found[1].expires_at
    /\ ret.threshold = [num |-> 1, den |-> 4]

Counters == DOMAIN stats

\* C21: the hit, miss and eviction counters never decrease in any step of
\* Get, Put, clear_cache, clean_expired and get_stats calls; a clear_cache
\* step empties both stores and the access index and leaves every counter
\* as it was.
C21_CountersNeverDecrease ==
    [][/\ \A c \in Counters : stats'[c] >= stats[c]
       /\ DoClearCache =>
             /\ weather_cache' = EmptyDict
             /\ city_cache' = EmptyDict
             /\ access_order' = <<>>
             /\ stats' = stats
       /\ DoGetStats => stats' = stats]_vars

\* The pool is empty again after entries were stored, hit and evicted.
C21_Witness ==
    /\ weather_cache = EmptyDict
    /\ city_cache = EmptyDict
    /\ access_order = <<>>
    /\ stats.evictions > 0
    /\ stats.city_hits > 0
    /\ max_cache_size > 1
    /\ now = 0

Unexpired(d, t) == {k \in DOMAIN d : ~(t > d[k].expires_at)}

\* C22: a clean_expired step removes from both stores and from the access
\* index exactly the entries whose expires_at is below the time of the
\* call; every unexpired entry, its access timestamp and all the counters
\* are as before.
C22_CleanExpiredRemovesExactlyExpired ==
    [][DoCleanExpired =>
          LET gone == (DOMAIN weather_cache \ Unexpired(weather_cache, now))
                         \cup (DOMAIN city_cache \ Unexpired(city_cache, now))
          IN  /\ DOMAIN weather_cache' = Unexpired(weather_cache, now)
              /\ DOMAIN city_cache' = Unexpired(city_cache, now)
              /\ \A k \in DOMAIN weather_cache' :
                    weather_cache'[k] = weather_cache[k]
              /\ \A k \in DOMAIN city_cache' : city_cache'[k] = city_cache[k]
              /\ access_order' =
                    SelectSeq(access_order, LAMBDA r : r.key \notin gone)
              /\ stats' = stats]_vars

\* No Get, eviction or later clear_cache has touched the pool, a sweep at
\* time 2 has removed an expired entry, and a weather entry stored at time 0
\* that expires at 2 is still there with its index record.
C22_Witness ==
    /\ now = 2
    /\ ~fresh.ok
    /\ \A c \in Counters : stats[c] = 0
    /\ \E k \in DOMAIN weather_cache :
          /\ weather_cache[k].created_at = 0
          /\ weather_cache[k].expires_at = 2
          /\ access_order = <<[key |-> k, ts |-> 0]>>

HitCounter(ns) == IF ns = "weather" THEN "weather_hits" ELSE "city_hits"

MissCounter(ns) == IF ns = "weather" THEN "weather_misses" ELSE "city_misses"

\* C24: a get_weather_data or get_city_info step adds one to exactly one
\* counter, the hit or the miss counter of its namespace. A hit sets the
\* key's access timestamp to the time of the call and changes nothing
\* else; a miss on a stored but expired entry removes the entry and its
\* index record; a miss on an absent key changes no entry and no record.
C24_GetCountsOnceAndTouchesOnlyItsKey ==
    [][(DoGetWeatherData \/ DoGetCityInfo) =>
          LET k == ret'.key
              present == k \in StoreKeys(Pool)
              alive == present /\ ~(now > EntryOf(Pool, k).expires_at)
              counted == IF alive THEN HitCounter(ret'.ns)
                         ELSE MissCounter(ret'.ns)
          IN  /\ stats' = [stats EXCEPT ![counted] = @ + 1]
              /\ alive =>
                    /\ weather_cache' = weather_cache
                    /\ city_cache' = city_cache
                    /\ Len(access_order') = Len(access_order)
                    /\ \A i \in 1..Len(access_order) :
                          access_order'[i] =
                             IF access_order[i].key = k
                             THEN [key |-> k, ts |-> now]
                             ELSE access_order[i]
                    /\ ret'.val = EntryOf(Pool, k).data
              /\ (present /\ ~alive) =>
                    /\ weather_cache' =
                          [x \in DOMAIN weather_cache \ {k} |-> weather_cache[x]]
                    /\ city_cache' =
                          [x \in DOMAIN city_cache \ {k} |-> city_cache[x]]
                    /\ access_order' =
                          SelectSeq(access_order, LAMBDA r : r.key # k)
                    /\ ret'.val = None
              /\ ~present =>
                    /\ weather_cache' = weather_cache
                    /\ city_cache' = city_cache
                    /\ access_order' = access_order
                    /\ ret'.val = None]_vars

\* A Get has just missed on an entry that was stored and had expired, after
\* an earlier Get of the same namespace had hit, with another entry left in
\* the pool.
C24_Witness ==
    /\ ret.op = "get"
    /\ ret.found # <<>>
    /\ ret.val = None
    /\ ret.key \notin StoreKeys(Pool)
    /\ stats[HitCounter(ret.ns)] > 0
    /\ stats[MissCounter(ret.ns)] = 1
    /\ access_order # <<>>

LastAccess(acc, k) == acc[CHOOSE i \in 1..Len(acc) : acc[i].key = k].ts

\* C25: one pass of _evict_lru over a pool of c entries with a capacity of
\* at least 1 removes nothing when c is below the capacity; otherwise it
\* removes exactly c - capacity + 1 entries, none of them accessed later
\* than an entry it keeps, from the stores and from the access index, and
\* the eviction counter grows by the number of entries removed.
C25_EvictionPassRemovesOldest ==
    \A capacity \in CacheSizes :
        LET p == Pool
            q == EvictLru(p, capacity)
            c == TotalEntries(p)
            removed == StoreKeys(p) \ StoreKeys(q)
        IN  IF c < capacity
            THEN q = p
            ELSE /\ Cardinality(removed) = c - capacity + 1
                 /\ \A r \in removed, k \in StoreKeys(q) :
                       LastAccess(p.access, r) <= LastAccess(p.access, k)
                 /\ \A k \in DOMAIN q.weather : q.weather[k] = p.weather[k]
                 /\ \A k \in DOMAIN q.city : q.city[k] = p.city[k]
                 /\ q.access = SelectSeq(p.access, LAMBDA x : x.key \notin removed)
                 /\ q.stats =
                       [p.stats EXCEPT !.evictions = @ + Cardinality(removed)]

\* A pool of capacity 3 holds two entries of different age after a Put made
\* the pass evict the oldest one; a pass with capacity 1 would remove both.
C25_Witness ==
    /\ max_cache_size = 3
    /\ stats.evictions = 1
    /\ TotalEntries(Pool) = 2
    /\ \E i, j \in 1..Len(access_order) : access_order[i].ts < access_order[j].ts
    /\ TotalEntries(EvictLru(Pool, 1)) = 0

\* The finished call named a registered capability whose convention tag is
\* none of the four the dispatcher knows.
UnknownTag == CallDone /\ Registered /\ call.funcItem \notin CallableTypes

PayloadDecodes ==
    call.arguments.has /\ DecodeArguments(call.arguments.text).exc = ""

\* C26 as stated: a call to a registered capability with an unknown
\* convention tag returns the NOTFOUND response without invoking the
\* callable, as a call to an unregistered name does, whatever its payload.
C26_UnknownTagIsNotFound ==
    UnknownTag => call.result = NotFoundResponse /\ call.invoked = <<>>

\* C26: a call to a registered capability with an unknown convention tag
\* never invokes the callable; when its argument payload decodes (or is
\* repaired) it returns the same NOTFOUND response as an unregistered name,
\* and when the payload is absent or cannot be decoded it returns None after
\* logging the error, which an unregistered name never does.
C26_UnknownTagIsNotFoundWhenDecoded ==
    UnknownTag =>
        /\ call.invoked = <<>>
        /\ call.escaped = ""
        /\ PayloadDecodes =>
              /\ call.result = NotFoundResponse
              /\ LastState = "NOT_FOUND"
              /\ call.logged = ""
        /\ ~PayloadDecodes =>
              /\ call.result = None
              /\ LastState = "ERROR"
              /\ call.logged \in ExceptionClasses

C26_Witness ==
    /\ UnknownTag
    /\ call.name = "search_from_ragflow"
    /\ call.arguments.text # <<>>
    /\ SeqHas(call.trace, "ARG_DECODED")
    /\ call.result = NotFoundResponse

\* C27: when set_weather_data or set_city_info is about to return (its
\* eviction pass is over and it still holds the lock), the entry it stored
\* is in the pool, for any interleaving with the other thread's calls.
C27_PutEntryPresentOnReturn ==
    \A t \in Threads :
        pc[t] = "put_release" =>
            /\ local[t].cache_key \in StoreKeys(Pool)
            /\ EntryOf(Pool, local[t].cache_key) = local[t].cache_entry[1]

\* C28: in every step of concurrently running calls, a key that stays in
\* the pool keeps or raises the created_at of its entry and its timestamp
\* in the access index: no Put writes an entry or an access time older than
\* the one another thread has written.
C28_TimestampsNeverDecrease ==
    [][/\ \A k \in DOMAIN weather_cache \cap DOMAIN weather_cache' :
             weather_cache'[k].created_at >= weather_cache[k].created_at
       /\ \A k \in DOMAIN city_cache \cap DOMAIN city_cache' :
             city_cache'[k].created_at >= city_cache[k].created_at
       /\ \A k \in AccessKeys(access_order) \cap AccessKeys(access_order') :
             LastAccess(access_order', k) >= LastAccess(access_order, k)]_vars

\* C23: every entry stored in the pool has expires_at > created_at, for
\* every TTL the constructor takes from the configuration.
C23_ExpiresAfterCreated ==
    /\ \A k \in DOMAIN weather_cache :
          weather_cache[k].expires_at > weather_cache[k].created_at
    /\ \A k \in DOMAIN city_cache :
          city_cache[k].expires_at > city_cache[k].created_at

\* C29: get_weather_cache_pool hands the same single pool to every caller,
\* also when several threads make the first call at the same time: at most
\* one WeatherCachePool is ever constructed.
C29_SinglePoolInstance ==
    /\ constructed <= 1
    /\ \A t, u \in Threads :
          (got[t] # None /\ got[u] # None) => got[t] = got[u]

LastReport == ret.op = "get_weather_cached" /\ ret.answer = "report"

\* C30: in a get_weather_cached call that answers with a report, the
\* cache_hit flag given to the report is true exactly when the weather
\* data came out of the cache and false when it was fetched from upstream
\* during the call, and the call counts no weather hit or miss besides the
\* lookup that served the data (one lookup, none when a refresh is forced).
C30_CacheHitFlagTellsTheSource ==
    LastReport =>
        /\ (ret.val[1].cache_indicator = "cached") <=> ret.cached
        /\ ret.lookups = IF ret.force_refresh THEN 0 ELSE 1

====
